---- MODULE Spec2Model ----
(***************************************************************************)
(* fastapi-bootcamp: the astroplan observer API (store, service, handlers, *)
(* pagination) and the application lifespan with its singleton dependency. *)
(*                                                                         *)
(* Strings are sequences of one-character strings so that lower(),         *)
(* substring search and ordering are computed, not assumed.  An optional   *)
(* value (T | None) is a sequence of length at most one.                   *)
(***************************************************************************)
EXTENDS Integers, Sequences, FiniteSets, TLC

\* ---------------------------------------------------------------- bounds
MaxSites == 4
MaxPatLen == 1
MaxPage == 3
MaxLimit == 2
MaxCalls == 2

\* ------------------------------------------------------- optional values
None == <<>>
Some(x) == <<x>>
IsNone(o) == o = <<>>
Value(o) == o[1]

Min(a, b) == IF a < b THEN a ELSE b
Max(a, b) == IF a > b THEN a ELSE b

\* ---------------------------------------------------------------- strings
\* Code points of the characters used, as Python's str comparison sees them.
Code(c) ==
    CASE c = "-" -> 45
      [] c = "A" -> 65
      [] c = "B" -> 66
      [] c = "a" -> 97
      [] c = "b" -> 98

\* str.lower(), character by character.
LowerChar(c) ==
    CASE c = "A" -> "a"
      [] c = "B" -> "b"
      [] OTHER -> c

Lower(s) == [i \in 1..Len(s) |-> LowerChar(s[i])]

\* Python's `p in s` for strings: p occurs in s as a contiguous substring.
Contains(s, p) ==
    \E i \in 0..(Len(s) - Len(p)) : SubSeq(s, i + 1, i + Len(p)) = p

\* Python's str `<`: lexicographic by code point, a proper prefix is smaller.
RECURSIVE StrLess(_, _)
StrLess(s, t) ==
    IF t = <<>> THEN FALSE
    ELSE IF s = <<>> THEN TRUE
    ELSE IF Code(s[1]) # Code(t[1]) THEN Code(s[1]) < Code(t[1])
    ELSE StrLess(Tail(s), Tail(t))

\* Python's list slice s[start:stop] with step 1, negative indices included.
SliceIndex(i, n) == IF i < 0 THEN Max(i + n, 0) ELSE Min(i, n)
\* A slice that takes the element at stop as well.
PySliceInclusive(s, start, stop) ==
    SubSeq(s, SliceIndex(start, Len(s)) + 1, SliceIndex(stop + 1, Len(s)))

\* s[start:stop]
PySlice(s, start, stop) ==
    SubSeq(s, SliceIndex(start, Len(s)) + 1, SliceIndex(stop, Len(s)))

\* -------------------------------------------------------------- site data
\* The entries a sites.json may hold, each under its JSON key.  Two names
\* differ only in case ("Ab", "aB") so that the sort key and the stable
\* order matter.
AllSites ==
    << [key |-> <<"A", "B">>, name |-> <<"A", "b">>,
        aliases |-> << <<"B", "a">> >>, timezone |-> "UTC",
        longitude |-> -70, latitude |-> -30, elevation |-> 2663],
       [key |-> <<"B">>, name |-> <<"B">>,
        aliases |-> << <<"A">> >>, timezone |-> "Chile/Continental",
        longitude |-> -71, latitude |-> -29, elevation |-> 2400],
       [key |-> <<"a", " ", "b">>, name |-> <<"a", "B">>,
        aliases |-> << <<"b", "b">>, <<"A">> >>, timezone |-> "UTC",
        longitude |-> -155, latitude |-> 19, elevation |-> 4213],
       [key |-> <<"B", "a">>, name |-> <<"b", "B">>,
        aliases |-> << >>, timezone |-> "US/Hawaii",
        longitude |-> 17, latitude |-> 28, elevation |-> 2326],
       [key |-> <<"b", "b">>, name |-> <<"B", "B">>,
        aliases |-> << <<"a">> >>, timezone |-> "UTC",
        longitude |-> 149, latitude |-> -31, elevation |-> 1164],
       [key |-> <<"A">>, name |-> <<"b">>,
        aliases |-> << >>, timezone |-> "UTC",
        longitude |-> -111, latitude |-> 31, elevation |-> 2096] >>

SiteUniverse == {AllSites[i] : i \in 1..Min(MaxSites, Len(AllSites))}

\* slugify(key) on the keys used here (letters, one inner space): the key
\* in lower case with the space turned into a hyphen.
Slugify(key) ==
    [i \in 1..Len(key) |-> IF key[i] = " " THEN "-" ELSE LowerChar(key[i])]

\* self._sites for one choice of entries:
\* {slugify(key): value for key, value in site_data.items()}
SitesOf(S) ==
    [k \in {Slugify(s.key) : s \in S} |-> CHOOSE s \in S : Slugify(s.key) = k]

\* ------------------------------------------------------------- pagination
Orders == {"asc", "desc"}
DefaultPage == 1
DefaultLimit == 10
DefaultOrder == "asc"

\* Pagination(page=page, limit=limit, order=order)
Pagination(page, limit, order) ==
    [page |-> page, limit |-> limit, order |-> order]

\* pagination_dependency on the raw query parameters (absent = None): an
\* absent parameter takes its default, page is validated with ge=1, limit
\* has no constraint.  ok = FALSE is FastAPI's 422 validation error.
pagination_dependency(page, limit, order) ==
    LET p == IF IsNone(page) THEN DefaultPage ELSE Value(page)
        l == IF IsNone(limit) THEN DefaultLimit ELSE Value(limit)
        o == IF IsNone(order) THEN DefaultOrder ELSE Value(order)
    IN  IF p >= 1
        THEN [ok |-> TRUE, value |-> Pagination(p, l, o)]
        ELSE [ok |-> FALSE,
              detail |-> <<[type |-> "greater_than_equal",
                            loc |-> <<"query", "page">>]>>]

\* ------------------------------------------------------------------ store
\* EarthLocation.from_geodetic(longitude, latitude, elevation), each value
\* taken with the unit the site record names (degrees and metres).
EarthLocation(longitude, latitude, elevation) ==
    [lon |-> longitude, lat |-> latitude, height |-> elevation]

\* Observer.__init__: aliases = list(aliases) if aliases else []
Observer(observer_id, location, name, aliases, local_timezone) ==
    [observer_id |-> observer_id,
     location |-> location,
     name |-> name,
     aliases |-> IF aliases # <<>> THEN aliases ELSE <<>>,
     local_timezone |-> local_timezone]

\* ObserverStore.get_observer_by_id: Observer | None
StoreGetObserverById(sites, observer_id) ==
    IF observer_id \notin DOMAIN sites
    THEN None
    ELSE LET site_info == sites[observer_id]
             location == EarthLocation(site_info.longitude,
                                       site_info.latitude,
                                       site_info.elevation)
         IN  Some(Observer(observer_id, location, site_info.name,
                           site_info.aliases, site_info.timezone))

\* ObserverStore._get_observer_ids: sorted(self._sites.keys())
RECURSIVE SortedKeys(_)
SortedKeys(keys) ==
    IF keys = {} THEN <<>>
    ELSE LET least == CHOOSE k \in keys :
                          \A other \in keys \ {k} : StrLess(k, other)
         IN  <<least>> \o SortedKeys(keys \ {least})

GetObserverIds(sites) == SortedKeys(DOMAIN sites)

\* ObserverStore._has_name_pattern
HasNamePatternCaseSensitive(observer, name_pattern) ==
    \/ Contains(observer.name, name_pattern)
    \/ \E i \in 1..Len(observer.aliases) :
           Contains(observer.aliases[i], name_pattern)

HasNamePattern(observer, name_pattern) ==
    LET pattern == Lower(name_pattern)
    IN  \/ Contains(Lower(observer.name), pattern)
        \/ \E i \in 1..Len(observer.aliases) :
               Contains(Lower(observer.aliases[i]), pattern)

\* The truth value of `name_pattern` in `if name_pattern:` (None and ""
\* are both false).
Truthy(name_pattern) == ~IsNone(name_pattern) /\ Value(name_pattern) # <<>>

FilterSeq(observers, name_pattern) ==
    SelectSeq(observers, LAMBDA o : HasNamePattern(o, name_pattern))

\* list.sort(key=lambda observer: observer.name.lower(), reverse=...):
\* a stable sort; with reverse=True equal keys still keep their order.
SortKeyKeepingCase(observer) == observer.name

SortKey(observer) == Lower(observer.name)

ComesBefore(x, y, reverse) ==
    IF reverse THEN StrLess(SortKey(y), SortKey(x))
    ELSE StrLess(SortKey(x), SortKey(y))

RECURSIVE InsertSorted(_, _, _)
InsertSorted(x, sorted, reverse) ==
    IF sorted = <<>> THEN <<x>>
    ELSE IF ComesBefore(x, sorted[1], reverse) THEN <<x>> \o sorted
    ELSE <<sorted[1]>> \o InsertSorted(x, Tail(sorted), reverse)

RECURSIVE SortObservers(_, _)
SortObservers(observers, reverse) ==
    IF observers = <<>> THEN <<>>
    ELSE LET n == Len(observers)
         IN  InsertSorted(observers[n],
                          SortObservers(SubSeq(observers, 1, n - 1), reverse),
                          reverse)

\* ObserversPage(observers=..., total=..., pagination=...): the dataclass
\* has exactly these three fields.
ObserversPage(observers, total, pagination) ==
    [observers |-> observers, total |-> total, pagination |-> pagination]

\* ObserverStore.get_observers
StoreGetObserversCountingPage(sites, name_pattern, pagination) ==
    LET all_ids == GetObserverIds(sites)
        all_observers ==
            [i \in 1..Len(all_ids) |-> StoreGetObserverById(sites, all_ids[i])]
        present == SelectSeq(all_observers, LAMBDA o : ~IsNone(o))
        observers0 == [i \in 1..Len(present) |-> Value(present[i])]
        filtered == IF Truthy(name_pattern)
                    THEN FilterSeq(observers0, Value(name_pattern))
                    ELSE observers0
        sorted == SortObservers(filtered, pagination.order = "desc")
        start == (pagination.page - 1) * pagination.limit
        end0 == start + pagination.limit
        end == IF end0 > Len(sorted) THEN Len(sorted) ELSE end0
        paged == IF start < Len(sorted) THEN PySlice(sorted, start, end)
                 ELSE <<>>
    IN  ObserversPage(paged, Len(paged), pagination)

StoreGetObservers(sites, name_pattern, pagination) ==
    LET all_ids == GetObserverIds(sites)
        all_observers ==
            [i \in 1..Len(all_ids) |-> StoreGetObserverById(sites, all_ids[i])]
        present == SelectSeq(all_observers, LAMBDA o : ~IsNone(o))
        observers0 == [i \in 1..Len(present) |-> Value(present[i])]
        filtered == IF Truthy(name_pattern)
                    THEN FilterSeq(observers0, Value(name_pattern))
                    ELSE observers0
        total_filtered_observers == Len(filtered)
        sorted == SortObservers(filtered, pagination.order = "desc")
        start == (pagination.page - 1) * pagination.limit
        end0 == start + pagination.limit
        end == IF end0 > Len(sorted) THEN Len(sorted) ELSE end0
        paged == IF start < Len(sorted) THEN PySlice(sorted, start, end)
                 ELSE <<>>
    IN  ObserversPage(paged, total_filtered_observers, pagination)

\* dict.pop(observer_id, None): the dictionary without that key.
SitesAfterPop(sites, observer_id) ==
    [k \in DOMAIN sites \ {observer_id} |-> sites[k]]

\* self._sites.get(observer_id): the dictionary after the lookup.
SitesAfterGet(sites, observer_id) == sites

\* self._sites after get_observer_by_id: one lookup, the record it finds
\* is read field by field and its aliases are copied by Observer.
SitesAfterGetObserverById(sites, observer_id) ==
    SitesAfterGet(sites, observer_id)

\* self._sites after get_observers: sorted(self._sites.keys()), then
\* get_observer_by_id for each id; filter, sort and slice work on the
\* list of Observer objects built from them.
RECURSIVE SitesAfterLookups(_, _)
SitesAfterLookups(sites, ids) ==
    IF ids = <<>> THEN sites
    ELSE SitesAfterLookups(SitesAfterGetObserverById(sites, Head(ids)),
                           Tail(ids))

SitesAfterGetObservers(sites) == SitesAfterLookups(sites, GetObserverIds(sites))

\* ---------------------------------------------------------------- service
\* A call either returns (ok, value) or raises (exc).
Return(v) == [ok |-> TRUE, value |-> v]
Raise(e) == [ok |-> FALSE, exc |-> e]

\* ObserverNotFoundError(observer_id): a ClientRequestError with
\* status_code 404 and error "unknown_observer"; location and field_path
\* are unset until a handler sets them.
ObserverNotFoundError(observer_id) ==
    [type |-> "ObserverNotFoundError", status_code |-> 404,
     error |-> "unknown_observer", msg |-> observer_id,
     location |-> None, field_path |-> None]

\* ObserverService.get_observer_by_id
ServiceGetObserverById(sites, observer_id) ==
    LET observer == StoreGetObserverById(sites, observer_id)
    IN  IF IsNone(observer)
        THEN Raise(ObserverNotFoundError(observer_id))
        ELSE Return(Value(observer))

\* ObserverService.get_observers
ServiceGetObservers(sites, name_pattern, pagination) ==
    StoreGetObservers(sites, name_pattern, pagination)

\* ------------------------------------------------------------------- URLs
\* A path is a sequence of segments, each a string; a literal segment of a
\* route is written as one symbol.
Seg(word) == <<word>>

\* config.path_prefix and the prefix the astroplan router is mounted under.
PathPrefix == <<Seg("fastapi-bootcamp")>>
AstroplanPrefix == PathPrefix \o <<Seg("astroplan")>>

\* The path of a named route of the astroplan router, path parameters
\* substituted: "/observers/{observer_id}" and "/observers".
RoutePath(name, path_params) ==
    CASE name = "get_observer" ->
             AstroplanPrefix \o <<Seg("observers"), path_params.observer_id>>
      [] name = "get_observers" ->
             AstroplanPrefix \o <<Seg("observers")>>
      [] name = "post_observable" ->
             AstroplanPrefix \o <<Seg("observers"), path_params.observer_id,
                                  Seg("observable")>>

\* request.url_for(name, **path_params)
UrlFor(req, name, path_params) ==
    [base |-> req.base_url, path |-> RoutePath(name, path_params)]

\* ----------------------------------------------------------- API models
\* ObserverModel.from_domain
ObserverModelFromDomainByName(observer, req) ==
    [id |-> observer.observer_id,
     name |-> observer.name,
     aliases |-> observer.aliases,
     local_timezone |-> observer.local_timezone,
     longitude |-> observer.location.lon,
     latitude |-> observer.location.lat,
     elevation |-> observer.location.height,
     self_url |-> UrlFor(req, "get_observer", [observer_id |-> observer.name])]

ObserverModelFromDomain(observer, req) ==
    [id |-> observer.observer_id,
     name |-> observer.name,
     aliases |-> observer.aliases,
     local_timezone |-> observer.local_timezone,
     longitude |-> observer.location.lon,
     latitude |-> observer.location.lat,
     elevation |-> observer.location.height,
     self_url |-> UrlFor(req, "get_observer",
                         [observer_id |-> observer.observer_id])]

\* Attribute lookup on a dataclass instance: an attribute the class does
\* not define raises AttributeError.
HasAttr(obj, attr) == attr \in DOMAIN obj
AttributeError(attr) == [type |-> "AttributeError", attr |-> attr]

\* Links that always ask for ascending order.
UrlForPageAscending(limit, req, page, sort_ascending, name_pattern) ==
    IF IsNone(page) THEN None
    ELSE Some([base |-> req.base_url,
               path |-> RoutePath("get_observers", <<>>),
               query |-> [limit |-> limit,
                          page |-> Value(page),
                          order |-> "asc",
                          name |-> IF Truthy(name_pattern) THEN name_pattern
                                   ELSE None]])

\* ObserverCollectionResponseModel._url_for_page
UrlForPage(limit, req, page, sort_ascending, name_pattern) ==
    IF IsNone(page) THEN None
    ELSE Some([base |-> req.base_url,
               path |-> RoutePath("get_observers", <<>>),
               query |-> [limit |-> limit,
                          page |-> Value(page),
                          order |-> IF sort_ascending THEN "asc" ELSE "desc",
                          name |-> IF Truthy(name_pattern) THEN name_pattern
                                   ELSE None]])

\* ObserverCollectionResponseModel._next_url
NextUrl(observers_page, req, name_pattern) ==
    IF ~HasAttr(observers_page, "page") THEN Raise(AttributeError("page"))
    ELSE IF ~HasAttr(observers_page, "limit")
    THEN Raise(AttributeError("limit"))
    ELSE IF ~HasAttr(observers_page, "sort_ascending")
    THEN Raise(AttributeError("sort_ascending"))
    ELSE LET next_page ==
                 IF observers_page.page * observers_page.limit
                        < observers_page.total
                 THEN Some(observers_page.page + 1)
                 ELSE None
         IN  Return(UrlForPage(observers_page.limit, req, next_page,
                               observers_page.sort_ascending, name_pattern))

\* ObserverCollectionResponseModel._prev_url
PrevUrl(observers_page, req, name_pattern) ==
    IF ~HasAttr(observers_page, "page") THEN Raise(AttributeError("page"))
    ELSE IF ~HasAttr(observers_page, "limit")
    THEN Raise(AttributeError("limit"))
    ELSE IF ~HasAttr(observers_page, "sort_ascending")
    THEN Raise(AttributeError("sort_ascending"))
    ELSE LET prev_page ==
                 IF observers_page.page > 1
                 THEN Some(observers_page.page - 1)
                 ELSE None
         IN  Return(UrlForPage(observers_page.limit, req, prev_page,
                               observers_page.sort_ascending, name_pattern))

\* ObserverCollectionResponseModel.from_domain: the arguments are evaluated
\* in order (data, total, page, limit, next_url, prev_url).
CollectionFromDomain(observers_page, req, name_pattern) ==
    LET data == [i \in 1..Len(observers_page.observers) |->
                     ObserverModelFromDomain(observers_page.observers[i], req)]
        next == NextUrl(observers_page, req, name_pattern)
        prev == PrevUrl(observers_page, req, name_pattern)
    IN  IF ~HasAttr(observers_page, "page")
        THEN Raise(AttributeError("page"))
        ELSE IF ~HasAttr(observers_page, "limit")
        THEN Raise(AttributeError("limit"))
        ELSE IF ~next.ok THEN next
        ELSE IF ~prev.ok THEN prev
        ELSE Return([data |-> data,
                     pagination |-> [total |-> observers_page.total,
                                     page |-> observers_page.page,
                                     limit |-> observers_page.limit,
                                     next_url |-> next.value,
                                     prev_url |-> prev.value]])

\* --------------------------------------------------------------- handlers
\* The response the application sends for what a path operation did: the
\* returned model with status 200; a ClientRequestError through
\* client_request_error_handler (status_code of the exception, detail with
\* its error type and location); any other exception as a 500.
ErrorLoc(exc) ==
    IF IsNone(exc.location) THEN None
    ELSE IF IsNone(exc.field_path) THEN Some(exc.location)
    ELSE Some(exc.location \o Value(exc.field_path))

IsClientRequestError(exc) == exc.type = "ObserverNotFoundError"

Respond(result) ==
    IF result.ok
    THEN [status_code |-> 200, body |-> result.value]
    ELSE IF IsClientRequestError(result.exc)
    THEN [status_code |-> result.exc.status_code,
          body |-> [detail |-> <<[type |-> result.exc.error,
                                  loc |-> ErrorLoc(result.exc)]>>]]
    ELSE [status_code |-> 500, body |-> [exception |-> result.exc]]

\* FastAPI's answer to a request whose parameters fail validation.
ValidationErrorResponse(detail) ==
    [status_code |-> 422, body |-> [detail |-> detail]]

\* get_observer, after the service call
GetObserverHandlerNoLocation(service_result, req) ==
    IF ~service_result.ok THEN service_result
    ELSE Return(ObserverModelFromDomain(service_result.value, req))

GetObserverHandler(service_result, req) ==
    IF ~service_result.ok
    THEN IF service_result.exc.type = "ObserverNotFoundError"
         THEN Raise([service_result.exc EXCEPT
                         !.location = <<"path">>,
                         !.field_path = Some(<<"observer_id">>)])
         ELSE service_result
    ELSE Return(ObserverModelFromDomain(service_result.value, req))

\* get_observers, after the service call
GetObserversHandler(observers_page, req, name_pattern) ==
    CollectionFromDomain(observers_page, req, name_pattern)

\* ---------------------------------------------------------------- factory
\* A store that keeps the data of an earlier read instead of reading.
CreateObserverStoreCached(file, loads) == [sites |-> file, loads |-> loads]

\* Factory.create_observer_store: ObserverStore(logger=...), whose __init__
\* reads sites.json; loads counts the reads of the request.
CreateObserverStore(file, loads) == [sites |-> file, loads |-> loads + 1]

\* Factory.create_observer_service: a service on a new store.
CreateObserverService(file, loads) == CreateObserverStore(file, loads)

\* ---------------------------------------------------------- observability
\* Angle(text): the coordinate strings of the model that astropy parses,
\* with the angle each denotes; any other string is a parse error.
RightAscensions == [t \in {"5h23m34.6s"} |-> [unit |-> "hourangle",
                                                h |-> 5, m |-> 23, s |-> 346]]

Declinations == [t \in {"-69d45m22s"} |-> [unit |-> "degree",
                                            d |-> 0 - 69, m |-> 45, s |-> 220]]

ValueError(msg) == [type |-> "ValueError", msg |-> msg]

\* SkyCoord(ra, dec, frame="icrs")
SkyCoord(ra, dec) ==
    IF ra \in DOMAIN RightAscensions /\ dec \in DOMAIN Declinations
    THEN Return([ra |-> RightAscensions[ra], dec |-> Declinations[dec],
                 frame |-> "icrs"])
    ELSE Raise(ValueError("Cannot parse first argument data"))

\* angle.to_string(unit=...): the text of a parsed angle
AngleToString(angle) ==
    IF angle.unit = "hourangle"
    THEN CHOOSE t \in DOMAIN RightAscensions : RightAscensions[t] = angle
    ELSE CHOOSE t \in DOMAIN Declinations : Declinations[t] = angle

\* ObservationRequestModel.get_target
GetTarget(request_data) == SkyCoord(request_data.ra, request_data.dec)

\* A validator that lets every pair of strings through.
ValidateCoordinateAcceptingAll(request_data) == Return(request_data)

\* ObservationRequestModel.validate_coordinate
ValidateCoordinate(request_data) ==
    IF GetTarget(request_data).ok
    THEN Return(request_data)
    ELSE Raise(ValueError("Invalid coordinates: ra=" \o request_data.ra
                          \o ", dec=" \o request_data.dec))

\* current_datetime(): the clock when the request is parsed
CurrentDatetime == "2024-05-01T12:00:00Z"

\* ObservationRequestModel(ra, dec, time) from the JSON body: time takes
\* its default_factory when absent, then the model validator runs.
ObservationRequestModel(ra, dec, time) ==
    ValidateCoordinate([ra |-> ra, dec |-> dec,
                        time |-> IF IsNone(time) THEN CurrentDatetime
                                 ELSE Value(time)])

\* observer.target_is_up(time, target): above the horizon of 0 degrees
TargetIsUp(altaz) == altaz.alt > 0

\* An observability that reports an airmass wherever the target is.
ComputeAlwaysWithAirmass(observer, target, time, sky) ==
    [observer |-> observer, target |-> target, time |-> time,
     is_above_horizon |-> TargetIsUp(sky.altaz),
     airmass |-> Some(sky.altaz.secz),
     altaz |-> sky.altaz,
     is_night |-> sky.is_night,
     moon_up |-> sky.moon_altaz.alt > 0,
     moon_separation |-> sky.moon_separation,
     moon_altaz |-> sky.moon_altaz,
     moon_illumination |-> sky.moon_illumination]

\* TargetObservability.compute; sky holds what astropy and astroplan
\* compute for this observer, target and time.
TargetObservabilityCompute(observer, target, time, sky) ==
    LET is_up == TargetIsUp(sky.altaz)
        altaz == sky.altaz
        airmass == IF is_up THEN Some(altaz.secz) ELSE None
        is_night == sky.is_night
        moon_altaz == sky.moon_altaz
        moon_up == moon_altaz.alt > 0
        moon_separation == sky.moon_separation
        moon_illumination == sky.moon_illumination
    IN  [observer |-> observer, target |-> target, time |-> time,
         is_above_horizon |-> is_up,
         airmass |-> airmass,
         altaz |-> altaz,
         is_night |-> is_night,
         moon_up |-> moon_up,
         moon_separation |-> moon_separation,
         moon_altaz |-> moon_altaz,
         moon_illumination |-> moon_illumination]

\* A service that computes for the present moment whatever time is given.
ServiceGetTargetObservabilityNow(sites, observer_id, sky_coord, time, sky) ==
    LET observer == ServiceGetObserverById(sites, observer_id)
    IN  IF ~observer.ok THEN observer
        ELSE Return(TargetObservabilityCompute(observer.value, sky_coord,
                                               CurrentDatetime, sky))

\* ObserverService.get_target_observability
ServiceGetTargetObservability(sites, observer_id, sky_coord, time, sky) ==
    LET observer == ServiceGetObserverById(sites, observer_id)
    IN  IF ~observer.ok THEN observer
        ELSE Return(TargetObservabilityCompute(observer.value, sky_coord,
                                               time, sky))

\* ObservabilityResponseModel.from_domain
ObservabilityFromDomain(observability, req) ==
    [ra |-> AngleToString(observability.target.ra),
     dec |-> AngleToString(observability.target.dec),
     time |-> observability.time,
     above_horizon |-> observability.is_above_horizon,
     is_night |-> observability.is_night,
     airmass |-> observability.airmass,
     alt |-> observability.altaz.alt,
     az |-> observability.altaz.az,
     moon_separation |-> observability.moon_separation,
     moon_illumination |-> observability.moon_illumination,
     observer_url |->
         UrlFor(req, "get_observer",
                [observer_id |-> observability.observer.observer_id])]

\* post_observable: what the request leaves in store_return,
\* service_result, site_loads and response.
ServeObservable(req, file, sky) ==
    LET request_data == ObservationRequestModel(req.body.ra, req.body.dec,
                                                req.body.time)
    IN  IF ~request_data.ok
        THEN [store_return |-> None, service_result |-> None, loads |-> 0,
              sites |-> None,
              response |->
                  ValidationErrorResponse(<<[type |-> "value_error",
                                             loc |-> <<"body">>,
                                             error |-> request_data.exc.msg]>>)]
        ELSE LET observer_service == CreateObserverService(file, 0)
                 observer_id == req.path_params.observer_id
                 sky_coord == GetTarget(request_data.value)
             IN  IF ~sky_coord.ok
                 THEN [store_return |-> None, service_result |-> None,
                       loads |-> observer_service.loads,
                       sites |-> Some(observer_service.sites),
                       response |-> Respond(sky_coord)]
                 ELSE LET observability ==
                              ServiceGetTargetObservability(
                                  observer_service.sites, observer_id,
                                  sky_coord.value, request_data.value.time,
                                  sky)
                      IN  [store_return |->
                               Some(StoreGetObserverById(
                                        observer_service.sites, observer_id)),
                           service_result |-> Some(observability),
                           loads |-> observer_service.loads,
                           sites |->
                               Some(SitesAfterGetObserverById(
                                        observer_service.sites, observer_id)),
                           response |->
                               IF observability.ok
                               THEN Respond(Return(ObservabilityFromDomain(
                                                observability.value, req)))
                               ELSE Respond(observability)]

\* --------------------------------------------------- singleton dependency
\* DemoInternalError(msg, custom_data=None): a SlackException, an
\* internal (500) error.
DemoInternalError(msg, custom_data) ==
    [type |-> "DemoInternalError", msg |-> msg, custom_data |-> custom_data]

ADJECTIVES == {"speedy", "ponderous", "furious", "careful", "mammoth",
               "crafty"}

ANIMALS == {"cat", "dog", "sloth", "snail", "rabbit", "turtle"}

\* The same state, built without the animal.
SingletonInitAdjectiveOnly(adjective, animal) == Some(adjective)

\* ExampleSingletonDependency.init, for the two random.choice results:
\* self._state = f"{adjective} {animal}"
SingletonInitState(adjective, animal) == Some(adjective \o " " \o animal)

\* ExampleSingletonDependency.aclose: self._state = None
SingletonAcloseState == None

\* A call that hands out the state as it is.
SingletonCallReturningState(state) == Return(state)

\* ExampleSingletonDependency.__call__
SingletonCall(state) ==
    IF IsNone(state)
    THEN Raise(DemoInternalError(
                   "ExampleSingletonDependency not initialized.", None))
    ELSE Return(Value(state))

\* get_dependency_demo with its dependencies solved in declaration order:
\* a raising dependency ends the request at once, a validation error of
\* pagination_dependency is reported when no dependency raised.
DependencyDemo(state, page, limit, order) ==
    LET pagination == pagination_dependency(page, limit, order)
        persistent_value == SingletonCall(state)
    IN  IF ~persistent_value.ok THEN Respond(persistent_value)
        ELSE IF ~pagination.ok THEN ValidationErrorResponse(pagination.detail)
        ELSE Respond(Return([page |-> pagination.value.page,
                             limit |-> pagination.value.limit,
                             order |-> pagination.value.order,
                             persistent_value |-> persistent_value.value]))

\* ------------------------------------------------------ external handlers
\* class Language(str, Enum)
Languages == {"en", "es", "fr"}

DefaultLanguage == "en"

GreetingResponseModel(greeting, language) ==
    [greeting |-> greeting, language |-> language]

\* get_multilingual_greeting
GetMultilingualGreeting(language) ==
    LET greetings == [en |-> "Hello, SQuaRE Services Bootcamp!",
                      es |-> "¡Hola, SQuaRE Services Bootcamp!",
                      fr |-> "Bonjour, SQuaRE Services Bootcamp!"]
    IN  GreetingResponseModel(greetings[language], language)

\* A path handler that answers in English whatever is asked.
GetEnglishGreetingPath(language) ==
    GreetingResponseModel("Hello, SQuaRE Services Bootcamp!", "en")

\* get_multilingual_greeting_path
GetMultilingualGreetingPath(language) ==
    LET greetings == [en |-> "Hello, SQuaRE Services Bootcamp!",
                      es |-> "¡Hola, SQuaRE Services Bootcamp!",
                      fr |-> "Bonjour, SQuaRE Services Bootcamp!"]
    IN  GreetingResponseModel(greetings[language], language)

\* A format string as its literal texts and replacement fields.
NameField == [field |-> "name"]

\* template.format(name=name): every replacement field gives way to the
\* value, which is not read as a format string itself.
RECURSIVE Format(_, _)
Format(template, name) ==
    IF template = <<>> THEN ""
    ELSE (IF Head(template) = NameField THEN name ELSE Head(template).text)
             \o Format(Tail(template), name)

Text(s) == [text |-> s]

\* A greeting that leaves the name out.
PostGreetingWithoutName(data) ==
    LET greeting_templates == [en |-> <<Text("Hello, "), Text("!")>>,
                               es |-> <<Text("¡Hola, "), Text("!")>>,
                               fr |-> <<Text("Bonjour, "), Text("!")>>]
    IN  GreetingResponseModel(Format(greeting_templates[data.language],
                                     data.name),
                              data.language)

\* post_greeting
PostGreetingHandler(data) ==
    LET greeting_templates ==
            [en |-> <<Text("Hello, "), NameField, Text("!")>>,
             es |-> <<Text("¡Hola, "), NameField, Text("!")>>,
             fr |-> <<Text("Bonjour, "), NameField, Text("!")>>]
    IN  GreetingResponseModel(Format(greeting_templates[data.language],
                                     data.name),
                              data.language)

\* post_log_demo: three log messages, then the greeting of post_greeting
\* from a dictionary of its own.
PostLogDemoHandler(data) ==
    LET greeting_templates ==
            [en |-> <<Text("Hello, "), NameField, Text("!")>>,
             es |-> <<Text("¡Hola, "), NameField, Text("!")>>,
             fr |-> <<Text("Bonjour, "), NameField, Text("!")>>]
    IN  GreetingResponseModel(Format(greeting_templates[data.language],
                                     data.name),
                              data.language)

\* A query or path parameter, or a body field, of type Language: ok =
\* FALSE is the 422 for a value outside the enumeration.
ParseLanguage(language, default, loc) ==
    IF IsNone(language) THEN [ok |-> TRUE, value |-> default]
    ELSE IF Value(language) \in Languages
    THEN [ok |-> TRUE, value |-> Value(language)]
    ELSE [ok |-> FALSE, detail |-> <<[type |-> "enum", loc |-> loc]>>]

\* GreetingRequestModel from a JSON body: name is required, language
\* defaults to en.
GreetingRequestModel(name, language) ==
    LET lang == ParseLanguage(language, DefaultLanguage, <<"body", "language">>)
    IN  IF IsNone(name)
        THEN [ok |-> FALSE,
              detail |-> <<[type |-> "missing", loc |-> <<"body", "name">>]>>]
        ELSE IF ~lang.ok THEN lang
        ELSE [ok |-> TRUE,
              value |-> [name |-> Value(name), language |-> lang.value]]

RuntimeError(msg) == [type |-> "RuntimeError", msg |-> msg]

\* ErrorRequestModel from a JSON body: custom_error defaults to True.
ErrorRequestModel(custom_error) ==
    [custom_error |-> IF IsNone(custom_error) THEN TRUE
                      ELSE Value(custom_error)]

\* A handler that raises the generic error whatever is asked.
PostErrorDemoAlwaysGeneric(data) ==
    Raise(RuntimeError("A generic error occurred."))

\* post_error_demo
PostErrorDemoHandler(data) ==
    IF data.custom_error
    THEN Raise(DemoInternalError("A custom error occurred.",
                                 Some("Hello error!")))
    ELSE Raise(RuntimeError("A generic error occurred."))

\* ------------------------------------------------------------ the inputs
BaseUrl == "http://test"

\* An id no sites.json of the model holds.
NotASite == <<"b", "-", "a">>
RequestIds == {Slugify(s.key) : s \in SiteUniverse} \cup {NotASite}

PatternChars == {"a", "A", "b"}
Strings == UNION {[1..k -> PatternChars] : k \in 0..MaxPatLen}
NamePatterns == {None} \cup {Some(s) : s \in Strings}
PageParams == {None} \cup {Some(p) : p \in 0..MaxPage}
LimitParams == {None} \cup {Some(l) : l \in (0 - MaxLimit)..MaxLimit}
OrderParams == {None} \cup {Some(o) : o \in Orders}

\* The coordinate strings of a request body: one pair astropy parses and
\* one string it does not.
RaInputs == DOMAIN RightAscensions \cup {"noon"}
DecInputs == DOMAIN Declinations \cup {"south"}
TimeInputs == {None, Some("2024-04-24T00:00:00Z")}

\* What astropy and astroplan compute for an observer, a target and a
\* time: the target and the moon above or below the horizon, day or night.
TargetFrames == {[alt |-> 45, az |-> 180, secz |-> 14142],
                 [alt |-> 0 - 30, az |-> 90, secz |-> 0 - 20000]}
MoonFrames == {[alt |-> 20, az |-> 270], [alt |-> 0 - 10, az |-> 0]}
Skies == [altaz : TargetFrames, is_night : BOOLEAN, moon_altaz : MoonFrames,
          moon_separation : {60}, moon_illumination : {50}]

\* Language values a client sends: the three of the enumeration and one
\* outside it.
LanguageInputs == Languages \cup {"de"}
LanguageParams == {None} \cup {Some(l) : l \in LanguageInputs}
NameInputs == {None, Some("Ada"), Some(""), Some("{name}")}
CustomErrorInputs == {None, Some(TRUE), Some(FALSE)}

Query(page, limit, order, name) ==
    [page |-> page, limit |-> limit, order |-> order, name |-> name]

VARIABLES
    site_data,       \* the content of sites.json, as ObserverStore loads it
    phase,           \* lifespan: "created", "running", "stopped"
    singleton_state, \* ExampleSingletonDependency._state
    request,         \* the request being answered (None: idle)
    store_return,    \* what the ObserverStore call of that request returned
    service_result,  \* what the ObserverService call returned or raised
    response,        \* the response to that request
    walk,            \* the client following next_url links
    config,          \* the Configuration the application runs with
    iers_clears,     \* calls of IersCacheManager.clear_iers_cache so far
    site_loads,      \* reads of sites.json: at start-up, in this request
    returned,        \* what example_singleton_dependency handed out since
                     \* the last init() or aclose()
    store_sites,     \* _sites of the store built for this request, after
                     \* the calls the handler made on it (None: no store)
    links            \* pagination links built for a page (None: none)

vars == <<site_data, phase, singleton_state, request, store_return,
          service_result, response, walk, config, iers_clears, site_loads,
          returned, store_sites, links>>

\* Configuration: clear_iers_on_startup defaults to False.
Configurations == [clear_iers_on_startup : BOOLEAN]

\* closed: the last of init() and aclose() to be called was aclose().
NothingReturned == [values |-> {}, calls |-> 0, closed |-> FALSE]

WalkIdle == [status |-> "idle", start |-> None, url |-> None,
             observers |-> <<>>, requests |-> 0]

Init ==
    /\ site_data \in {SitesOf(S) : S \in SUBSET SiteUniverse}
    /\ phase = "created"
    /\ singleton_state = None
    /\ request = None
    /\ store_return = None
    /\ service_result = None
    /\ response = None
    /\ walk = WalkIdle
    /\ config \in Configurations
    /\ iers_clears = 0
    /\ site_loads = [startup |-> 0, serving |-> 0]
    /\ returned = NothingReturned
    /\ store_sites = None
    /\ links = None

\* site_loads after a request whose handler read sites.json n times.
Serving(n) == [site_loads EXCEPT !.serving = n]

\* IersCacheManager.clear_iers_cache: clear_download_cache()
ClearIersCache(clears) == clears + 1

\* lifespan, up to the yield, on the IERS cache: there is no start-up
\* code, so the cache is left alone whatever the configuration says.
LifespanStartup(configuration, clears) == clears

Idle == phase = "running" /\ IsNone(request) /\ walk.status # "walking"

\* lifespan, up to the yield: no start-up code runs.
Startup ==
    /\ phase = "created"
    /\ phase' = "running"
    /\ iers_clears' = LifespanStartup(config, iers_clears)
    /\ UNCHANGED <<site_data, singleton_state, request, store_return,
                   store_sites, service_result, response, walk, config, links,
                   site_loads, returned>>

\* lifespan, after the yield: http_client_dependency.aclose()
Shutdown ==
    /\ Idle
    /\ phase' = "stopped"
    /\ UNCHANGED <<site_data, singleton_state, request, store_return,
                   store_sites, service_result, response, walk, config, links,
                   iers_clears, site_loads, returned>>

\* GET /astroplan/observers/{observer_id}
GetObserver ==
    /\ Idle
    /\ \E observer_id \in RequestIds :
        LET req == [endpoint |-> "get_observer",
                    base_url |-> BaseUrl,
                    path |-> RoutePath("get_observer",
                                       [observer_id |-> observer_id]),
                    path_params |-> [observer_id |-> observer_id]]
            observer_service == CreateObserverService(site_data, 0)
            sites == observer_service.sites
            result == ServiceGetObserverById(sites, req.path_params.observer_id)
        IN  /\ request' = Some(req)
            /\ site_loads' = Serving(observer_service.loads)
            /\ store_sites' =
                   Some(SitesAfterGetObserverById(sites,
                                                  req.path_params.observer_id))
            /\ store_return' =
                   Some(StoreGetObserverById(sites,
                                             req.path_params.observer_id))
            /\ service_result' = Some(result)
            /\ response' = Some(Respond(GetObserverHandler(result, req)))
    /\ UNCHANGED <<site_data, phase, singleton_state, walk, config, links,
                   iers_clears, returned>>

\* GET /astroplan/observers with the given query string: what the request
\* leaves in request, store_return, service_result and response.
ObserversRequest(query) ==
    [endpoint |-> "get_observers",
     base_url |-> BaseUrl,
     path |-> RoutePath("get_observers", <<>>),
     query |-> query]

ServeObservers(query) ==
    LET req == ObserversRequest(query)
        pagination == pagination_dependency(query.page, query.limit,
                                            query.order)
        name_pattern == query.name
    IN  IF ~pagination.ok
        THEN [store_return |-> None,
              service_result |-> None,
              loads |-> 0,
              sites |-> None,
              response |-> ValidationErrorResponse(pagination.detail)]
        ELSE LET observer_service == CreateObserverService(site_data, 0)
                 sites == observer_service.sites
                 observers_page ==
                     ServiceGetObservers(sites, name_pattern,
                                         pagination.value)
             IN  [store_return |->
                      Some(StoreGetObservers(sites, name_pattern,
                                             pagination.value)),
                  service_result |-> Some(Return(observers_page)),
                  loads |-> observer_service.loads,
                  sites |-> Some(SitesAfterGetObservers(sites)),
                  response |->
                      Respond(GetObserversHandler(observers_page, req,
                                                  name_pattern))]

GetObservers ==
    /\ Idle
    /\ \E page \in PageParams, limit \in LimitParams, order \in OrderParams,
          name \in NamePatterns :
        LET query == Query(page, limit, order, name)
            served == ServeObservers(query)
        IN  /\ request' = Some(ObserversRequest(query))
            /\ store_return' = served.store_return
            /\ service_result' = served.service_result
            /\ response' = Some(served.response)
            /\ site_loads' = Serving(served.loads)
            /\ store_sites' = served.sites
    /\ UNCHANGED <<site_data, phase, singleton_state, walk, config, links,
                   iers_clears, returned>>

\* returned after one more call of example_singleton_dependency.
Returned(persistent_value) ==
    IF persistent_value.ok
    THEN [returned EXCEPT
              !.values = returned.values \cup {persistent_value.value},
              !.calls = Min(returned.calls + 1, MaxCalls)]
    ELSE returned

\* POST /astroplan/observers/{observer_id}/observable
PostObservable ==
    /\ Idle
    /\ \E observer_id \in RequestIds, ra \in RaInputs, dec \in DecInputs,
          time \in TimeInputs, sky \in Skies :
        LET req == [endpoint |-> "post_observable",
                    base_url |-> BaseUrl,
                    path |-> RoutePath("post_observable",
                                       [observer_id |-> observer_id]),
                    path_params |-> [observer_id |-> observer_id],
                    body |-> [ra |-> ra, dec |-> dec, time |-> time]]
            served == ServeObservable(req, site_data, sky)
        IN  /\ request' = Some(req)
            /\ store_return' = served.store_return
            /\ service_result' = served.service_result
            /\ response' = Some(served.response)
            /\ site_loads' = Serving(served.loads)
            /\ store_sites' = served.sites
    /\ UNCHANGED <<site_data, phase, singleton_state, walk, config, links,
                   iers_clears, returned>>

\* A request to an external handler that uses no store and no singleton:
\* the request and its response.
External(req, resp) ==
    /\ request' = Some(req)
    /\ response' = Some(resp)
    /\ store_return' = None
    /\ service_result' = None
    /\ site_loads' = Serving(0)
    /\ store_sites' = None
    /\ UNCHANGED <<site_data, phase, singleton_state, walk, config, links,
                   iers_clears, returned>>

\* GET /greeting?language=...
GetGreeting ==
    /\ Idle
    /\ \E language \in LanguageParams :
        LET lang == ParseLanguage(language, DefaultLanguage,
                                  <<"query", "language">>)
        IN  External([endpoint |-> "get_multilingual_greeting",
                      base_url |-> BaseUrl,
                      path |-> PathPrefix \o <<Seg("greeting")>>,
                      query |-> [language |-> language]],
                     IF lang.ok
                     THEN Respond(Return(GetMultilingualGreeting(lang.value)))
                     ELSE ValidationErrorResponse(lang.detail))

\* GET /greeting/{language}
GetGreetingPath ==
    /\ Idle
    /\ \E language \in LanguageInputs :
        LET lang == ParseLanguage(Some(language), DefaultLanguage,
                                  <<"path", "language">>)
        IN  External([endpoint |-> "get_multilingual_greeting_path",
                      base_url |-> BaseUrl,
                      path |-> PathPrefix \o <<Seg("greeting"), language>>,
                      path_params |-> [language |-> language]],
                     IF lang.ok
                     THEN Respond(Return(
                              GetMultilingualGreetingPath(lang.value)))
                     ELSE ValidationErrorResponse(lang.detail))

\* POST /greeting
PostGreeting ==
    /\ Idle
    /\ \E name \in NameInputs, language \in LanguageParams :
        LET data == GreetingRequestModel(name, language)
        IN  External([endpoint |-> "post_greeting",
                      base_url |-> BaseUrl,
                      path |-> PathPrefix \o <<Seg("greeting")>>,
                      body |-> [name |-> name, language |-> language]],
                     IF data.ok
                     THEN Respond(Return(PostGreetingHandler(data.value)))
                     ELSE ValidationErrorResponse(data.detail))

\* POST /log-demo
PostLogDemo ==
    /\ Idle
    /\ \E name \in NameInputs, language \in LanguageParams :
        LET data == GreetingRequestModel(name, language)
        IN  External([endpoint |-> "post_log_demo",
                      base_url |-> BaseUrl,
                      path |-> PathPrefix \o <<Seg("log-demo")>>,
                      body |-> [name |-> name, language |-> language]],
                     IF data.ok
                     THEN Respond(Return(PostLogDemoHandler(data.value)))
                     ELSE ValidationErrorResponse(data.detail))

\* POST /error-demo
PostErrorDemo ==
    /\ Idle
    /\ \E custom_error \in CustomErrorInputs :
        External([endpoint |-> "post_error_demo",
                  base_url |-> BaseUrl,
                  path |-> PathPrefix \o <<Seg("error-demo")>>,
                  body |-> [custom_error |-> custom_error]],
                 Respond(PostErrorDemoHandler(
                             ErrorRequestModel(custom_error))))

\* GET /dependency-demo
GetDependencyDemo ==
    /\ Idle
    /\ \E page \in PageParams, limit \in LimitParams, order \in OrderParams :
        /\ request' = Some([endpoint |-> "get_dependency_demo",
                            base_url |-> BaseUrl,
                            path |-> PathPrefix \o <<Seg("dependency-demo")>>,
                            query |-> Query(page, limit, order, None)])
        /\ response' = Some(DependencyDemo(singleton_state, page, limit, order))
    /\ store_return' = None
    /\ service_result' = None
    /\ site_loads' = Serving(0)
    /\ store_sites' = None
    /\ returned' = Returned(SingletonCall(singleton_state))
    /\ UNCHANGED <<site_data, phase, singleton_state, walk, config, links,
                   iers_clears>>

\* The client has read the response; the next request can be made.
Complete ==
    /\ phase = "running"
    /\ ~IsNone(request)
    /\ walk.status # "walking"
    /\ request' = None
    /\ store_return' = None
    /\ service_result' = None
    /\ response' = None
    /\ walk' = WalkIdle
    /\ site_loads' = Serving(0)
    /\ store_sites' = None
    /\ UNCHANGED <<site_data, phase, singleton_state, config, links,
                   iers_clears, returned>>

\* test_get_observers_pagination: the client starts at a listing URL ...
WalkStart ==
    /\ Idle
    /\ \E limit \in LimitParams, order \in OrderParams, name \in NamePatterns :
        walk' = [status |-> "walking",
                 start |-> Some(Query(None, limit, order, name)),
                 url |-> Some([base |-> BaseUrl,
                               path |-> RoutePath("get_observers", <<>>),
                               query |-> Query(None, limit, order, name)]),
                 observers |-> <<>>,
                 requests |-> 0]
    /\ UNCHANGED <<site_data, phase, singleton_state, request, store_return,
                   store_sites, service_result, response, config, links,
                   iers_clears, site_loads, returned>>

\* ... and, while url is not None, gets it, asserts status 200, extends
\* its list with the data and moves to pagination.next_url.
WalkStep ==
    /\ phase = "running"
    /\ walk.status = "walking"
    /\ ~IsNone(walk.url)
    /\ LET query == Value(walk.url).query
           served == ServeObservers(query)
           resp == served.response
       IN  /\ request' = Some(ObserversRequest(query))
           /\ store_return' = served.store_return
           /\ service_result' = served.service_result
           /\ response' = Some(resp)
           /\ walk' =
                  IF resp.status_code # 200
                  THEN [walk EXCEPT !.status = "failed",
                                    !.requests = @ + 1]
                  ELSE [status |-> IF IsNone(resp.body.pagination.next_url)
                                   THEN "done" ELSE "walking",
                        start |-> walk.start,
                        url |-> resp.body.pagination.next_url,
                        observers |-> walk.observers \o resp.body.data,
                        requests |-> walk.requests + 1]
           /\ site_loads' = Serving(served.loads)
           /\ store_sites' = served.sites
    /\ UNCHANGED <<site_data, phase, singleton_state, config, links,
                   iers_clears, returned>>

Next ==
    \/ Startup
    \/ Shutdown
    \/ GetObserver
    \/ GetObservers
    \/ PostObservable
    \/ GetGreeting
    \/ GetGreetingPath
    \/ PostGreeting
    \/ PostLogDemo
    \/ PostErrorDemo
    \/ GetDependencyDemo
    \/ Complete
    \/ WalkStart
    \/ WalkStep

Spec == Init /\ [][Next]_vars

\* -------------------------------- the singleton dependency and its callers
\* ExampleSingletonDependency.init, called by whoever owns the dependency
SingletonInit ==
    /\ Idle
    /\ \E adjective \in ADJECTIVES, animal \in ANIMALS :
        singleton_state' = SingletonInitState(adjective, animal)
    /\ returned' = NothingReturned
    /\ UNCHANGED <<site_data, phase, request, store_return, store_sites,
                   service_result, response, walk, config, links, iers_clears,
                   site_loads>>

\* ExampleSingletonDependency.aclose
SingletonAclose ==
    /\ Idle
    /\ singleton_state' = SingletonAcloseState
    /\ returned' = [NothingReturned EXCEPT !.closed = TRUE]
    /\ UNCHANGED <<site_data, phase, request, store_return, store_sites,
                   service_result, response, walk, config, links, iers_clears,
                   site_loads>>

\* ------------------------------------------- the links as functions
\* The objects _next_url and _prev_url can work on: they read the
\* attributes page, limit, total and sort_ascending of observers_page.
PagesWithAttributes ==
    [observers : {<<>>}, total : 0..MaxSites, page : 1..MaxPage,
     limit : (0 - MaxLimit)..MaxLimit, sort_ascending : BOOLEAN]

\* _next_url and _prev_url called on such an object for a request.
BuildLinks ==
    /\ IsNone(links)
    /\ \E observers_page \in PagesWithAttributes,
          name_pattern \in NamePatterns :
        LET req == ObserversRequest(
                       Query(Some(observers_page.page),
                             Some(observers_page.limit),
                             Some(IF observers_page.sort_ascending
                                  THEN "asc" ELSE "desc"),
                             name_pattern))
        IN  links' = Some([observers_page |-> observers_page,
                           name_pattern |-> name_pattern,
                           next_url |-> NextUrl(observers_page, req,
                                                name_pattern),
                           prev_url |-> PrevUrl(observers_page, req,
                                                name_pattern)])
    /\ UNCHANGED <<site_data, phase, singleton_state, request, store_return,
                   store_sites, service_result, response, walk, config,
                   iers_clears, site_loads, returned>>

\* No link has been built; the site data and the configuration play no
\* part in the links.
InitLinks ==
    /\ Init
    /\ site_data = SitesOf(SiteUniverse)
    /\ ~config.clear_iers_on_startup

NextLinks == BuildLinks

SpecLinks == InitLinks /\ [][NextLinks]_vars

\* The application with default configuration and every site on file.
InitDep ==
    /\ Init
    /\ site_data = SitesOf(SiteUniverse)
    /\ ~config.clear_iers_on_startup

NextDep ==
    \/ Startup
    \/ SingletonInit
    \/ SingletonAclose
    \/ GetDependencyDemo
    \/ Complete

SpecDep == InitDep /\ [][NextDep]_vars

\* ===================================================================
\* Properties
\* ===================================================================
\* The state after a GET /astroplan/observers that reached the store.
Listed ==
    /\ ~IsNone(request)
    /\ Value(request).endpoint = "get_observers"
    /\ ~IsNone(store_return)

ListedPage == Value(store_return)
ListedName == Value(request).query.name
ListedResponse == Value(response)

\* "s contains p, compared case-insensitively": some stretch of s reads as
\* p once both are lowercased.
ContainsIgnoringCase(s, p) ==
    \E i \in 1..(Len(s) + 1), j \in 0..Len(s) :
        Lower(SubSeq(s, i, j)) = Lower(p)

NameOrAliasContains(site, p) ==
    \/ ContainsIgnoringCase(site.name, p)
    \/ \E i \in 1..Len(site.aliases) : ContainsIgnoringCase(site.aliases[i], p)

\* The ids a name filter selects from the site data.
Considered(name) ==
    IF IsNone(name) \/ Value(name) = <<>>
    THEN DOMAIN site_data
    ELSE {k \in DOMAIN site_data : NameOrAliasContains(site_data[k], Value(name))}

PageIds(page) == {page.observers[i].observer_id : i \in 1..Len(page.observers)}

\* C1: for limit >= 1, following next_url from page 1 never meets a failed
\* request, ends at a response whose next_url is null, and has then
\* collected pagination.total items holding every matching observer once.
C1_WalkCollectsEveryMatchOnce ==
    (walk.status # "idle"
        /\ pagination_dependency(Value(walk.start).page,
                                 Value(walk.start).limit,
                                 Value(walk.start).order).value.limit >= 1)
    => /\ walk.status # "failed"
       /\ walk.status = "done" =>
            /\ IsNone(ListedResponse.body.pagination.next_url)
            /\ Len(walk.observers) = ListedResponse.body.pagination.total
            /\ \A k \in Considered(Value(walk.start).name) :
                   Cardinality({i \in 1..Len(walk.observers) :
                                    walk.observers[i].id = k}) = 1

\* C2: with a non-empty name pattern the store considers exactly the
\* observers whose name or one of whose aliases contains it, ignoring
\* case; with the pattern absent or empty it considers every observer.
C2_FilterByNameOrAlias ==
    Listed =>
        /\ PageIds(ListedPage) \subseteq Considered(ListedName)
        /\ (ListedPage.pagination.page = 1
                /\ ListedPage.pagination.limit >= Cardinality(DOMAIN site_data))
           => PageIds(ListedPage) = Considered(ListedName)

\* A filter that selects an observer through an alias alone, in another
\* case than the pattern's, and leaves another observer out.
C2_Witness ==
    /\ Listed
    /\ ~IsNone(ListedName)
    /\ Value(ListedName) # <<>>
    /\ Considered(ListedName) # DOMAIN site_data
    /\ \E i \in 1..Len(ListedPage.observers) :
           LET o == ListedPage.observers[i]
           IN  /\ ~ContainsIgnoringCase(o.name, Value(ListedName))
               /\ \A a \in 1..Len(o.aliases) :
                      ~Contains(o.aliases[a], Value(ListedName))

\* s sorts no later than t in the requested order of lowercase names.
InOrder(s, t, order) ==
    IF order = "desc" THEN ~StrLess(Lower(s.name), Lower(t.name))
    ELSE ~StrLess(Lower(t.name), Lower(s.name))

\* C3: a listing is ordered by lowercase name, non-decreasing for asc and
\* non-increasing for desc, within a page and from the last item of a
\* page to the first item of the next page.
C3_OrderedByLowercaseName ==
    Listed =>
        LET page == ListedPage
            order == page.pagination.order
            following ==
                StoreGetObservers(site_data, ListedName,
                                  [page.pagination EXCEPT !.page = @ + 1])
        IN  /\ \A i \in 1..Len(page.observers), j \in 1..Len(page.observers) :
                   i < j => InOrder(page.observers[i], page.observers[j], order)
            /\ (page.observers # <<>> /\ following.observers # <<>>)
               => InOrder(page.observers[Len(page.observers)],
                          following.observers[1], order)

\* A descending page of two observers whose names differ, with a further
\* page after it.
C3_Witness ==
    /\ Listed
    /\ ListedPage.pagination.order = "desc"
    /\ Len(ListedPage.observers) = 2
    /\ Lower(ListedPage.observers[1].name) # Lower(ListedPage.observers[2].name)
    /\ ListedPage.total > ListedPage.pagination.page * 2

\* C4: ObserversPage.total is the number of observers the name filter
\* selects from the whole store, whatever the page, limit and order.
C4_TotalIsMatchCount ==
    Listed => ListedPage.total = Cardinality(Considered(ListedName))

\* A filtered page whose total is neither the page's length nor the size
\* of the store.
C4_Witness ==
    /\ Listed
    /\ ListedPage.observers # <<>>
    /\ ListedPage.total # Len(ListedPage.observers)
    /\ ListedPage.total # Cardinality(DOMAIN site_data)

\* The state after a GET /astroplan/observers/{observer_id}.
GotObserver == ~IsNone(request) /\ Value(request).endpoint = "get_observer"
RequestedId == Value(request).path_params.observer_id

\* C5: an observer_id that is no key of the store yields 404 with type
\* unknown_observer at ['path', 'observer_id'], and the service raises
\* ObserverNotFoundError exactly when the store returns None.
C5_UnknownObserverIs404 ==
    GotObserver =>
        /\ RequestedId \notin DOMAIN site_data =>
             /\ Value(response).status_code = 404
             /\ Len(Value(response).body.detail) = 1
             /\ Value(response).body.detail[1].type = "unknown_observer"
             /\ Value(response).body.detail[1].loc
                    = Some(<<"path", "observer_id">>)
        /\ (~Value(service_result).ok
                /\ Value(service_result).exc.type = "ObserverNotFoundError")
           <=> IsNone(Value(store_return))

\* A request for an id the non-empty store does not hold, answered 404.
C5_Witness ==
    /\ GotObserver
    /\ RequestedId \notin DOMAIN site_data
    /\ DOMAIN site_data # {}
    /\ Value(response).status_code = 404

\* C6: an observer_id that is a key of the store yields 200 with an
\* observer of that id whose self_url is the URL that was requested.
C6_KnownObserverIs200 ==
    (GotObserver /\ RequestedId \in DOMAIN site_data) =>
        /\ Value(response).status_code = 200
        /\ Value(response).body.id = RequestedId
        /\ Value(response).body.self_url.path = Value(request).path

\* A request for a stored id, answered 200 with an observer whose name is
\* not its id.
C6_Witness ==
    /\ GotObserver
    /\ RequestedId \in DOMAIN site_data
    /\ Value(response).status_code = 200
    /\ Value(response).body.name # RequestedId

\* C7: for limit >= 1 the listing's next_url is non-null exactly when
\* page * limit < total, and is then the URL of page + 1.
C7_NextUrlIffLaterPage ==
    (Listed /\ ListedPage.pagination.limit >= 1) =>
        /\ ListedResponse.status_code = 200
        /\ ~IsNone(ListedResponse.body.pagination.next_url)
           <=> ListedPage.pagination.page * ListedPage.pagination.limit
                   < ListedPage.total
        /\ ~IsNone(ListedResponse.body.pagination.next_url)
           => Value(ListedResponse.body.pagination.next_url).query.page
                  = ListedPage.pagination.page + 1

\* C8: the listing's prev_url is null exactly when the page is 1, and is
\* otherwise the URL of page - 1.
C8_PrevUrlIffNotFirstPage ==
    Listed =>
        /\ ListedResponse.status_code = 200
        /\ IsNone(ListedResponse.body.pagination.prev_url)
           <=> ListedPage.pagination.page = 1
        /\ ~IsNone(ListedResponse.body.pagination.prev_url)
           => Value(ListedResponse.body.pagination.prev_url).query.page
                  = ListedPage.pagination.page - 1

\* C9: for every limit pagination_dependency accepts, the page the store
\* returns holds at most limit observers.
C9_PageHoldsAtMostLimit ==
    Listed => Len(ListedPage.observers) <= ListedPage.pagination.limit

\* C10: the lifespan initializes the singleton dependency before requests
\* are served, so GET /dependency-demo never fails as not initialized.
C10_DependencyDemoInitialized ==
    /\ phase = "running" => ~IsNone(singleton_state)
    /\ (~IsNone(request) /\ Value(request).endpoint = "get_dependency_demo")
       => Value(response).status_code # 500

\* C11: between one init() and the next aclose() or init(), every call of
\* example_singleton_dependency returned the same value, the current state,
\* and that value is one adjective of ADJECTIVES, a space, one animal of
\* ANIMALS.
C11_SingletonValueReused ==
    /\ \A v, w \in returned.values : v = w
    /\ \A v \in returned.values :
         /\ singleton_state = Some(v)
         /\ \E adjective \in ADJECTIVES, animal \in ANIMALS :
                v = adjective \o " " \o animal

\* Two requests in a row were given the value.
C11_Witness ==
    /\ returned.calls >= 2
    /\ returned.values # {}
    /\ ~IsNone(response)
    /\ Value(response).status_code = 200

\* The state after a POST .../observable whose body passed validation and
\* whose observer exists: the service returned a TargetObservability.
Observed ==
    /\ ~IsNone(request)
    /\ Value(request).endpoint = "post_observable"
    /\ ~IsNone(service_result)
    /\ Value(service_result).ok

\* C12: in the TargetObservability that compute() returned, and in the
\* response built from it, airmass is null exactly when the target is not
\* above the horizon.
C12_AirmassNullIffBelowHorizon ==
    Observed =>
        LET observability == Value(service_result).value
            body == Value(response).body
        IN  /\ IsNone(observability.airmass)
                    <=> ~observability.is_above_horizon
            /\ Value(response).status_code = 200
            /\ IsNone(body.airmass) <=> ~body.above_horizon
            /\ body.airmass = observability.airmass
            /\ body.above_horizon = observability.is_above_horizon

\* A target below the horizon was answered without an airmass.
C12_Witness ==
    /\ Observed
    /\ ~Value(service_result).value.is_above_horizon
    /\ IsNone(Value(response).body.airmass)

\* The body of the request that is being answered.
PostedBody == Value(request).body

Posted == ~IsNone(request) /\ Value(request).endpoint = "post_observable"

\* C14: a body whose ra and dec cannot be parsed is rejected at validation
\* with "Invalid coordinates: ra=..., dec=..." and the service is not
\* called; every request that reached the service has coordinates that
\* get_target() parses.
C14_UnparsableCoordinatesRejected ==
    Posted =>
        /\ ~SkyCoord(PostedBody.ra, PostedBody.dec).ok =>
               /\ Value(response).status_code = 422
               /\ Value(response).body.detail[1].error =
                      "Invalid coordinates: ra=" \o PostedBody.ra
                          \o ", dec=" \o PostedBody.dec
               /\ IsNone(service_result)
               /\ IsNone(store_return)
        /\ ~IsNone(service_result) =>
               SkyCoord(PostedBody.ra, PostedBody.dec).ok

\* A body with a declination that does not parse was rejected.
C14_Witness ==
    /\ Posted
    /\ PostedBody.dec = "south"
    /\ PostedBody.ra \in DOMAIN RightAscensions
    /\ Value(response).status_code = 422

\* A request whose path operation function ran: it was not turned away
\* when its parameters were validated.
HandlerRan(endpoint) ==
    /\ ~IsNone(request)
    /\ Value(request).endpoint = endpoint
    /\ Value(response).status_code # 422

AstroplanHandlerRan ==
    \/ HandlerRan("get_observer")
    \/ HandlerRan("get_observers")
    \/ HandlerRan("post_observable")

\* C13, as the specification states it: sites.json is read once at
\* start-up, before requests are served, and serving a request does not
\* read it again.
C13_LoadedOnceAtStartup ==
    /\ phase # "created" => site_loads.startup = 1
    /\ site_loads.serving = 0

\* C13, amended: start-up does not read sites.json; every request whose
\* astroplan handler runs (get_observer, get_observers, post_observable)
\* builds its own ObserverStore and so reads the file exactly once, and no
\* other request reads it.
C13_LoadedByEachRequest ==
    /\ site_loads.startup = 0
    /\ site_loads.serving = IF AstroplanHandlerRan THEN 1 ELSE 0

\* An observability request was served, and read the file to do so.
C13_Witness ==
    /\ phase = "running"
    /\ HandlerRan("post_observable")
    /\ site_loads.serving = 1

\* The request being answered went to this endpoint.
Asked(endpoint) == ~IsNone(request) /\ Value(request).endpoint = endpoint

\* The greeting of each language, as the tests of the handlers expect it.
GreetingText(language) ==
    CASE language = "en" -> "Hello, SQuaRE Services Bootcamp!"
      [] language = "es" -> "¡Hola, SQuaRE Services Bootcamp!"
      [] language = "fr" -> "Bonjour, SQuaRE Services Bootcamp!"

\* C15: for L in en, es, fr, GET /greeting?language=L and GET /greeting/L
\* both answer 200 with the greeting text of L and language L, the same
\* body from either route; GET /greeting without a language answers in
\* English with language en.
C15_GreetingByQueryOrPath ==
    /\ Asked("get_multilingual_greeting") =>
           LET language == Value(request).query.language
               L == IF IsNone(language) THEN "en" ELSE Value(language)
           IN  L \in {"en", "es", "fr"} =>
                   /\ Value(response).status_code = 200
                   /\ Value(response).body =
                          [greeting |-> GreetingText(L), language |-> L]
                   /\ Value(response).body = GetMultilingualGreetingPath(L)
    /\ Asked("get_multilingual_greeting_path") =>
           LET L == Value(request).path_params.language
           IN  L \in {"en", "es", "fr"} =>
                   /\ Value(response).status_code = 200
                   /\ Value(response).body =
                          [greeting |-> GreetingText(L), language |-> L]
                   /\ Value(response).body = GetMultilingualGreeting(L)

\* The Spanish greeting was asked for by path.
C15_Witness ==
    /\ Asked("get_multilingual_greeting_path")
    /\ Value(request).path_params.language = "es"
    /\ Value(response).status_code = 200

\* 'Hello, N!', '¡Hola, N!' or 'Bonjour, N!'
GreetingFor(language, N) ==
    CASE language = "en" -> "Hello, " \o N \o "!"
      [] language = "es" -> "¡Hola, " \o N \o "!"
      [] language = "fr" -> "Bonjour, " \o N \o "!"

\* C16: POST /greeting with name N and language L answers 200 with the
\* template of L with N in it and language L, L being en when the body
\* names no language; POST /log-demo with the same body answers the same.
C16_GreetingWithName ==
    Asked("post_greeting") \/ Asked("post_log_demo") =>
        LET body == Value(request).body
            L == IF IsNone(body.language) THEN "en" ELSE Value(body.language)
        IN  ~IsNone(body.name) /\ L \in {"en", "es", "fr"} =>
                /\ Value(response).status_code = 200
                /\ Value(response).body =
                       [greeting |-> GreetingFor(L, Value(body.name)),
                        language |-> L]
                /\ Value(response).body =
                       PostGreetingHandler([name |-> Value(body.name),
                                            language |-> L])
                /\ Value(response).body =
                       PostLogDemoHandler([name |-> Value(body.name),
                                           language |-> L])

\* /log-demo greeted a name in French.
C16_Witness ==
    /\ Asked("post_log_demo")
    /\ Value(request).body.language = Some("fr")
    /\ Value(request).body.name = Some("Ada")
    /\ Value(response).body.greeting = "Bonjour, Ada!"

\* C17: POST /error-demo never answers normally: with custom_error true,
\* or absent, it raises DemoInternalError('A custom error occurred.') with
\* custom_data 'Hello error!', with custom_error false
\* RuntimeError('A generic error occurred.').
C17_ErrorDemoAlwaysRaises ==
    Asked("post_error_demo") =>
        LET custom_error == Value(request).body.custom_error
        IN  /\ Value(response).status_code = 500
            /\ Value(response).body.exception =
                   IF IsNone(custom_error) \/ custom_error = Some(TRUE)
                   THEN [type |-> "DemoInternalError",
                         msg |-> "A custom error occurred.",
                         custom_data |-> Some("Hello error!")]
                   ELSE [type |-> "RuntimeError",
                         msg |-> "A generic error occurred."]

\* The default body raised the custom error.
C17_Witness ==
    /\ Asked("post_error_demo")
    /\ IsNone(Value(request).body.custom_error)
    /\ Value(response).body.exception.type = "DemoInternalError"

\* C18: with clear_iers_on_startup true the IERS cache has been cleared
\* once start-up is over, before any request is served; with it false
\* (the default) start-up does not clear it.
C18_IersClearedIffConfigured ==
    phase # "created" =>
        (iers_clears >= 1 <=> config.clear_iers_on_startup)

\* j stands before k in the filtered list sorted in the given order:
\* by lowercase name, observers of equal key in the order of their ids.
StandsBefore(j, k, order) ==
    LET kj == Lower(site_data[j].name)
        kk == Lower(site_data[k].name)
    IN  \/ IF order = "desc" THEN StrLess(kk, kj) ELSE StrLess(kj, kk)
        \/ kj = kk /\ StrLess(j, k)

\* The index (from 0) of observer k in that list.
IndexInSorted(k, name, order) ==
    Cardinality({j \in Considered(name) \ {k} : StandsBefore(j, k, order)})

\* C19: for page p >= 1 and limit L >= 1, with S the filtered list in the
\* requested order and n its length, get_observers returns the elements
\* of S at indices (p-1)*L up to but excluding min(p*L, n), in that
\* order, and total = n; when (p-1)*L >= n it returns no observers.
C19_PageIsSliceOfSortedList ==
    (Listed /\ ListedPage.pagination.page >= 1
            /\ ListedPage.pagination.limit >= 1) =>
        LET p == ListedPage.pagination.page
            L == ListedPage.pagination.limit
            order == ListedPage.pagination.order
            n == Cardinality(Considered(ListedName))
            first == (p - 1) * L
            last == Min(p * L, n)
            observers == ListedPage.observers
        IN  /\ ListedPage.total = n
            /\ Len(observers) = Max(0, last - first)
            /\ first >= n => observers = <<>>
            /\ \A i \in 1..Len(observers) :
                   /\ observers[i].observer_id \in Considered(ListedName)
                   /\ IndexInSorted(observers[i].observer_id, ListedName,
                                    order) = first + i - 1

\* A second page that is cut short by the end of a filtered, descending
\* list.
C19_Witness ==
    /\ Listed
    /\ ListedPage.pagination = Pagination(2, 2, "desc")
    /\ Len(ListedPage.observers) = 1
    /\ ListedPage.total = 3
    /\ ListedPage.total < Cardinality(DOMAIN site_data)

\* C20: for every page the store produced, from_domain builds a response
\* without error whose pagination.page and pagination.limit are those of
\* the request's Pagination and whose pagination.total is the page's
\* total.
C20_ResponseCarriesPagination ==
    Listed =>
        /\ Value(response).status_code = 200
        /\ Value(response).body.pagination.page = ListedPage.pagination.page
        /\ Value(response).body.pagination.limit = ListedPage.pagination.limit
        /\ Value(response).body.pagination.total = ListedPage.total

\* A link asks for the get_observers route with the limit, order and name
\* filter of the page it was built for, and for the given page number.
LinkKeeps(url, page) ==
    LET observers_page == Value(links).observers_page
        name_pattern == Value(links).name_pattern
        NonEmpty == ~IsNone(name_pattern) /\ Value(name_pattern) # <<>>
    IN  /\ url.path = AstroplanPrefix \o <<Seg("observers")>>
        /\ url.query.limit = observers_page.limit
        /\ url.query.order =
               (IF observers_page.sort_ascending THEN "asc" ELSE "desc")
        /\ url.query.page = page
        /\ ~IsNone(url.query.name) <=> NonEmpty
        /\ NonEmpty => url.query.name = name_pattern

C22_WalkReachesNullNextUrl ==
    walk.status # "idle" =>
        \/ walk.status = "done" /\ IsNone(Value(response).body.pagination.next_url)
        \/ walk.status = "walking" /\ ~IsNone(walk.url)

\* C23: __call__ raises DemoInternalError('ExampleSingletonDependency not
\* initialized.') whenever the state is None (before the first init() and
\* after an aclose() until the next init()) and in every other state
\* returns the state, a string; it never returns None.
C23_CallRaisesIffNotInitialized ==
    Asked("get_dependency_demo") =>
        /\ IsNone(singleton_state) =>
               /\ Value(response).status_code = 500
               /\ Value(response).body.exception =
                      [type |-> "DemoInternalError",
                       msg |-> "ExampleSingletonDependency not initialized.",
                       custom_data |-> None]
        /\ ~IsNone(singleton_state) =>
               /\ Value(response).status_code \in {200, 422}
               /\ Value(response).status_code = 200 =>
                      /\ Value(response).body.persistent_value
                             = Value(singleton_state)
                      /\ Value(response).body.persistent_value
                             \in {adjective \o " " \o animal :
                                     adjective \in ADJECTIVES,
                                     animal \in ANIMALS}
        /\ (returned.closed \/ phase = "created") => IsNone(singleton_state)

\* The dependency was called after an aclose() and raised.
C23_Witness ==
    /\ Asked("get_dependency_demo")
    /\ returned.closed
    /\ Value(response).status_code = 500

\* C24: get_target_observability for an observer_id that is not in the
\* store raises ObserverNotFoundError (404, unknown_observer) and returns
\* no observability; for a known observer_id the TargetObservability it
\* returns carries that observer, the given target and the given time.
C24_ObservabilityOfKnownObserverOnly ==
    (Posted /\ ~IsNone(service_result)) =>
        LET observer_id == Value(request).path_params.observer_id
            result == Value(service_result)
        IN  /\ observer_id \notin DOMAIN site_data =>
                   /\ ~result.ok
                   /\ result.exc.type = "ObserverNotFoundError"
                   /\ result.exc.status_code = 404
                   /\ result.exc.error = "unknown_observer"
                   /\ Value(response).status_code = 404
                   /\ Value(response).body.detail[1].type = "unknown_observer"
            /\ observer_id \in DOMAIN site_data =>
                   /\ result.ok
                   /\ result.value.observer.observer_id = observer_id
                   /\ result.value.observer.name = site_data[observer_id].name
                   /\ Some(result.value.observer) = Value(store_return)
                   /\ result.value.target =
                          [ra |-> RightAscensions[PostedBody.ra],
                           dec |-> Declinations[PostedBody.dec],
                           frame |-> "icrs"]
                   /\ result.value.time =
                          (IF IsNone(PostedBody.time) THEN CurrentDatetime
                           ELSE Value(PostedBody.time))

\* An observability was asked for an observer the store does not have.
C24_Witness ==
    /\ Posted
    /\ ~IsNone(service_result)
    /\ ~Value(service_result).ok
    /\ Value(request).path_params.observer_id \notin DOMAIN site_data
    /\ site_data # <<>>

\* C25: no get_observer_by_id, get_observers or get_target_observability
\* call changes the store's site data: after the calls of a request the
\* store holds the ids and the records it was loaded with, also when the
\* call raised ObserverNotFoundError, filtered, sorted or asked for a
\* page out of range.
C25_StoreSiteDataUnchanged ==
    ~IsNone(store_sites) =>
        /\ DOMAIN Value(store_sites) = DOMAIN site_data
        /\ \A k \in DOMAIN site_data : Value(store_sites)[k] = site_data[k]

\* A filtered, descending listing asked for a page past the end.
C25_Witness ==
    /\ Listed
    /\ ~IsNone(store_sites)
    /\ ListedPage.observers = <<>>
    /\ ListedPage.total > 0
    /\ ListedPage.total < Cardinality(DOMAIN site_data)
    /\ ListedPage.pagination.order = "desc"

\* C26: pagination_dependency rejects every request with page < 1; for
\* an accepted request the Pagination carries the supplied page, limit
\* and order, with 1, 10 and asc for absent parameters, and
\* GET /dependency-demo echoes those three values unchanged.
C26_DependencyDemoEchoesPagination ==
    Asked("get_dependency_demo") =>
        LET query == Value(request).query
            page == IF IsNone(query.page) THEN 1 ELSE Value(query.page)
            limit == IF IsNone(query.limit) THEN 10 ELSE Value(query.limit)
            order == IF IsNone(query.order) THEN "asc" ELSE Value(query.order)
            pagination == pagination_dependency(query.page, query.limit,
                                                query.order)
        IN  /\ pagination.ok <=> page >= 1
            /\ pagination.ok =>
                   pagination.value =
                       [page |-> page, limit |-> limit, order |-> order]
            /\ page < 1 => Value(response).status_code = 422
            /\ page >= 1 =>
                   /\ Value(response).status_code = 200
                   /\ Value(response).body.page = page
                   /\ Value(response).body.limit = limit
                   /\ Value(response).body.order = order

====
